---------------------------- MODULE Spec2Model ----------------------------
(***************************************************************************)
(* Model of the flow-controller firmware (rode-o/fluid_controller):        *)
(* main loop, button handling, exponential gain scheduling, adaptive       *)
(* error filter, PID engine and the constant-voltage mode.                 *)
(*                                                                         *)
(* Numbers.  The firmware computes in float.  Here every float is a        *)
(* fixed-point integer counted in thousandths (ONE = 1.0): flow, error,    *)
(* gains and fractions in 0.001, time steps in 0.001 s (= 1 ms), voltages  *)
(* in 0.001 V.  Each C expression is evaluated exactly and rounded to the  *)
(* nearest thousandth when it is stored.  The thresholds 1e-9 of the code  *)
(* lie below the resolution: on this grid |x| < 1e-9 is x = 0 and          *)
(* |x| > 1e-9 is x # 0.  expf keeps its float range: it underflows to 0    *)
(* and overflows to +inf above ln(FLT_MAX); inf and NaN are carried as     *)
(* the sentinels INF, NEG_INF and NaN.                                     *)
(***************************************************************************)
EXTENDS Integers, Sequences, FiniteSets, TLC

ONE == 10 ^ 3

Abs(x) == IF x < 0 THEN -x ELSE x

Min(a, b) == IF a < b THEN a ELSE b

Max(a, b) == IF a > b THEN a ELSE b

\* a / b rounded to nearest (b > 0), without forming 2*a; x and y bind the
\* arguments so that each is evaluated once
RDiv(a, b) ==
    CHOOSE r \in { (x \div y) + (IF 2 * (x % y) >= y THEN 1 ELSE 0) :
                       x \in {a}, y \in {b} } : TRUE

\* a / b rounded to nearest, any sign of b # 0
RDivS(a, b) == IF b > 0 THEN RDiv(a, b) ELSE RDiv(-a, -b)

\* float product a * b of two thousandths-valued numbers, rounded once
MulF(a, b) ==
    CHOOSE r \in { x * (y \div ONE) + RDiv(x * (y % ONE), ONE) :
                       x \in {a}, y \in {b} } : TRUE

\* a*x + (1 - a)*y for a coefficient a in thousandths, rounded once
Lerp(a, x, y) ==
    a * (x \div ONE) + (ONE - a) * (y \div ONE)
      + RDiv(a * (x % ONE) + (ONE - a) * (y % ONE), ONE)

(***************************************************************************)
(* IEEE special values of float.                                           *)
(***************************************************************************)
INF == 2 ^ 30

NEG_INF == -(2 ^ 30)

NaN == 2 ^ 30 + 1

\* float comparison a < b: false as soon as one side is NaN
FLt(a, b) == a # NaN /\ b # NaN /\ a < b

(***************************************************************************)
(* expf.  The argument x and the result are in thousandths.                *)
(***************************************************************************)
\* e^-n, n = 0..10, in millionths
EXP_NEG_INT == <<1000000, 367879, 135335, 49787, 18316, 6738, 2479, 912, 335, 123, 45>>

\* e^n, n = 0..6, in thousandths
EXP_POS_INT == <<1000, 2718, 7389, 20086, 54598, 148413, 403429>>

\* ln(FLT_MAX) = 88.7228...: expf returns +inf above it
EXP_OVERFLOW == 88 * ONE + 722

\* sign^k f^k / k! summed for k = 0..8, f in [0, 1) thousandths; result in thousandths
ExpFrac(f, sign) ==
    LET t2 == f * f
        t3 == t2 * f
        t4 == (t3 \div ONE) * f
        t5 == (t4 \div ONE) * f
        t6 == (t5 \div ONE) * f
        t7 == (t6 \div ONE) * f
        t8 == (t7 \div ONE) * f
        v  == ONE * ONE + sign * ONE * f + t2 \div 2 + sign * (t3 \div 6000)
                + t4 \div 24000 + sign * (t5 \div 120000) + t6 \div 720000
                + sign * (t7 \div 5040000) + t8 \div 40320000
    IN  RDiv(v, ONE)

\* expf(x): finite results above e^7 are saturated at e^7 (every use clamps
\* or compares them far below that), results above FLT_MAX are INF
ExpF(x) ==
    IF x > EXP_OVERFLOW THEN INF
    ELSE IF x >= 0
         THEN LET n == Min(x \div ONE, 6)
                  f == IF x \div ONE > 6 THEN ONE - 1 ELSE x % ONE
              IN  RDiv(EXP_POS_INT[n + 1] * ExpFrac(f, 1), ONE)
         ELSE LET n == (-x) \div ONE
                  f == (-x) % ONE
              IN  IF n > 10 THEN 0
                  ELSE RDiv(EXP_NEG_INT[n + 1] * ExpFrac(f, -1), ONE * ONE)

\* -1.0f / d for a denominator d given in millionths (a product of two
\* thousandths-valued floats); result in thousandths
NegRecip(d) == -RDivS(ONE * ONE * ONE, d)

(***************************************************************************)
(* Configuration (config.h), in thousandths.                               *)
(***************************************************************************)
kConstantVoltage == 80000

BARTELS_MAX_VOLTAGE == 150000

BARTELS_MIN_VOLTAGE == 0

SLF_SCALE_FACTOR_FLOW == 10000

SLF_RUN_DURATION == 36000

FLOW_SP_MIN == 0

FLOW_SP_MAX == 2000

FLOW_STEP_SIZE == 50

ERROR_STEP == 1000

ERROR_PERCENT_LIMIT == 50000

EXP_KP == [A |-> 0, K |-> 0, B |-> 0, C |-> 0]

EXP_KI == [A |-> 1, K |-> 230, B |-> 40000, C |-> 0]

EXP_KD == [A |-> 0, K |-> 0, B |-> 0, C |-> 0]

FILTER_T_REF == 50

FILTER_SECONDARY_A2 == 0

FILTER_SECONDARY_K2 == 500

FILTER_B2_GUESS == 3000

EMA_ALPHA == 850

PID_DERIV_FILTER_ALPHA == 800

HIGH == 1

LOW == 0

CONTROL_MODE_EXP == "EXP"

CONTROL_MODE_CONST_VOLTAGE == "CONST_VOLTAGE"

(***************************************************************************)
(* Gain scheduler.                                                         *)
(***************************************************************************)
\* a curve whose degenerate-denominator fallback is the upper asymptote
getExpGainFallbackK(cv, x) ==
    IF Abs(cv.B) = 0 \/ Abs(cv.B * (x - cv.C)) = 0 THEN cv.K ELSE cv.A

\* getExpKp / getExpKi / getExpKd of exp_control.cpp share one body; cv is
\* the curve (A, K, B, C) the copy reads from config.h
getExpGain(cv, x) ==
    IF Abs(cv.B) = 0 THEN cv.A
    ELSE LET denom == cv.B * (x - cv.C)
         IN  IF Abs(denom) = 0 THEN cv.A
             ELSE LET e    == ExpF(NegRecip(denom))
                      val  == IF e = INF
                              THEN (IF cv.K = cv.A THEN NaN
                                    ELSE IF cv.K > cv.A THEN INF ELSE NEG_INF)
                              ELSE cv.A + MulF(cv.K - cv.A, e)
                      val1 == IF FLt(val, cv.A) THEN cv.A ELSE val
                  IN  IF FLt(cv.K, val1) THEN cv.K ELSE val1

getExpKp(x) == getExpGain(EXP_KP, x)

getExpKi(x) == getExpGain(EXP_KI, x)

getExpKd(x) == getExpGain(EXP_KD, x)

\* gain.cpp: the same curve, returned as computed
exponentialFunctionReciprocal(t, A, K, B, c) ==
    IF Abs(B) = 0 THEN A
    ELSE LET denominator == B * (t - c)
         IN  IF Abs(denominator) = 0 THEN A
             ELSE LET e == ExpF(NegRecip(denominator))
                  IN  IF e = INF
                      THEN (IF K = A THEN NaN ELSE IF K > A THEN INF ELSE NEG_INF)
                      ELSE A + MulF(K - A, e)

(***************************************************************************)
(* Error conditioner (filter.cpp).                                         *)
(***************************************************************************)
customExpDerivative(t, A, K, B) ==
    IF t <= 0 THEN 0
    ELSE LET bt     == B * t
             factor == (K - A) * ExpF(NegRecip(bt))
             btt    == RDiv(bt, ONE) * t
         IN  IF factor = 0 THEN 0 ELSE RDivS(factor * ONE, btt)

RECURSIVE B2Loop(_, _, _, _, _, _, _)
\* the for loop of computeB2ViaSlope from iteration i on
B2Loop(i, lo, hi, mid, slopeP, A2K2, Tref) ==
    IF i >= 60 THEN mid
    ELSE LET m      == RDiv(lo + hi, 2)
             slope2 == customExpDerivative(Tref, A2K2[1], A2K2[2], m)
             lo2    == IF slope2 > slopeP THEN m ELSE lo
             hi2    == IF slope2 > slopeP THEN hi ELSE m
         IN  IF hi2 - lo2 <= 0 THEN m
             ELSE B2Loop(i + 1, lo2, hi2, m, slopeP, A2K2, Tref)

\* the same loop one iteration at a time; q holds the locals, the number i
\* of iterations completed, and done once the loop has been left
B2Start(ps) ==
    [ps |-> ps, i |-> 0, lo |-> 1, hi |-> 100 * ONE, mid |-> FILTER_B2_GUESS,
     slopeP |-> customExpDerivative(ps.Tref, ps.A1, ps.K1, ps.B1),
     done |-> FALSE]

\* an iteration that never takes the break
B2StepNoBreak(q) ==
    LET m      == RDiv(q.lo + q.hi, 2)
        slope2 == customExpDerivative(q.ps.Tref, q.ps.A2, q.ps.K2, m)
    IN  [q EXCEPT !.i = q.i + 1, !.mid = m,
                  !.lo = IF slope2 > q.slopeP THEN m ELSE q.lo,
                  !.hi = IF slope2 > q.slopeP THEN q.hi ELSE m,
                  !.done = q.i + 1 >= 60]

B2Step(q) ==
    LET m      == RDiv(q.lo + q.hi, 2)
        slope2 == customExpDerivative(q.ps.Tref, q.ps.A2, q.ps.K2, m)
        lo2    == IF slope2 > q.slopeP THEN m ELSE q.lo
        hi2    == IF slope2 > q.slopeP THEN q.hi ELSE m
    IN  [q EXCEPT !.i = q.i + 1, !.mid = m, !.lo = lo2, !.hi = hi2,
                  !.done = (hi2 - lo2 <= 0) \/ (q.i + 1 >= 60)]

computeB2ViaSlope(A1, K1, B1, A2, K2, Tref) ==
    B2Loop(0, 1, 100 * ONE, FILTER_B2_GUESS,
           customExpDerivative(Tref, A1, K1, B1), <<A2, K2>>, Tref)

\* a domain guard that falls back to A2, as the gain curves fall back to A
computeAlphaSecondaryFallbackA(e, A2, K2, b2) ==
    IF e <= 0 THEN A2
    ELSE LET prod == b2 * e
             ex   == IF prod = 0 THEN 0 ELSE ExpF(NegRecip(prod))
             val  == A2 + MulF(K2 - A2, ex)
         IN  Max(0, Min(ONE, val))

\* a NaN magnitude fails the guard and both clamps and comes back as NaN
computeAlphaSecondary(e, A2, K2, b2) ==
    IF e = NaN THEN NaN
    ELSE IF e <= 0 THEN ONE
    ELSE LET prod == b2 * e
             ex   == IF prod = 0 THEN 0 ELSE ExpF(NegRecip(prod))
             val  == A2 + MulF(K2 - A2, ex)
         IN  Max(0, Min(ONE, val))

\* the value initDynamicLPFilter leaves in s_b2
SlopeMatchedB2 ==
    computeB2ViaSlope(EXP_KI.A, EXP_KI.K, EXP_KI.B,
                      FILTER_SECONDARY_A2, FILTER_SECONDARY_K2, FILTER_T_REF)

initDynamicLPFilter == [state |-> 0, currentAlpha |-> 0]

\* a stage 1 that hands its input through unfiltered
updateDynamicLPFilterPassThrough(f, in, b2) ==
    [state |-> in, currentAlpha |-> ONE]

updateDynamicLPFilter(f, in, b2) ==
    LET a == computeAlphaSecondary(Abs(in), FILTER_SECONDARY_A2,
                                   FILTER_SECONDARY_K2, b2)
    IN  IF a = NaN \/ in = NaN \/ f.state = NaN
        THEN [state |-> NaN, currentAlpha |-> a]
        ELSE [state |-> Lerp(a, in, f.state), currentAlpha |-> a]

resetEMA == [state |-> 0, primed |-> FALSE]

\* an EMA that blends from its first update on, never seeding itself
updateEMANoSeed(e, in) ==
    [state |-> Lerp(EMA_ALPHA, in, e.state), primed |-> TRUE]

updateEMA(e, in) ==
    IF ~e.primed THEN [state |-> in, primed |-> TRUE]
    ELSE [state |-> Lerp(EMA_ALPHA, in, e.state), primed |-> TRUE]

initTwoPoleFilter == [dyn |-> initDynamicLPFilter, ema |-> resetEMA]

updateTwoPoleFilter(f, in, b2) ==
    LET stage1 == updateDynamicLPFilter(f.dyn, in, b2)
    IN  [dyn |-> stage1, ema |-> updateEMA(f.ema, stage1.state)]

(***************************************************************************)
(* PID engine (pid.cpp).  p is the record of the file's statics; ret is    *)
(* the return value and the three out-parameters of the last update.       *)
(***************************************************************************)
\* an initPID that forgets the integrator
initPIDKeepIntegral(p, nowMs) ==
    [p EXCEPT !.derivFilterAlphaNormal  = PID_DERIV_FILTER_ALPHA,
              !.dErrorFilteredNormal    = 0,
              !.lastError               = 0,
              !.lastTimeNormal          = nowMs,
              !.g_lastIntegralIncrement = 0,
              !.g_lastErrorForAW        = 0]

initPID(p, nowMs) ==
    [p EXCEPT !.derivFilterAlphaNormal  = PID_DERIV_FILTER_ALPHA,
              !.dErrorFilteredNormal    = 0,
              !.integralTerm            = 0,
              !.lastError               = 0,
              !.lastTimeNormal          = nowMs,
              !.g_lastIntegralIncrement = 0,
              !.g_lastErrorForAW        = 0]

\* gains applied without the integral gain, which the update then finds stale
setPIDGainsStaleKi(p, kp, ki, kd) == [p EXCEPT !.Kp = kp, !.Kd = kd]

setPIDGains(p, kp, ki, kd) == [p EXCEPT !.Kp = kp, !.Ki = ki, !.Kd = kd]

\* a time step that never exceeds 100 ms
PidDtCapped(nowMs, last) ==
    LET dt == nowMs - last IN IF dt <= 0 THEN 1 ELSE Min(dt, 100)

\* dt of updatePIDNormal, in thousandths of a second
PidDt(nowMs, last) ==
    LET dt == nowMs - last IN IF dt <= 0 THEN 1 ELSE dt

\* The same time step on full 32-bit readings of millis().  An unsigned long
\* is written as <<high half, low half>>, each half a 16-bit number.
HALF == 65536

\* a - b as unsigned long subtraction computes it, modulo 2^32
Sub32(a, b) ==
    LET lo     == a[2] - b[2]
        borrow == IF lo < 0 THEN 1 ELSE 0
        hi     == a[1] - b[1] - borrow
    IN  <<(hi + HALF) % HALF, (lo + HALF) % HALF>>

\* a + b modulo 2^32
Add32(a, b) ==
    LET lo    == a[2] + b[2]
        carry == IF lo >= HALF THEN 1 ELSE 0
    IN  <<(a[1] + b[1] + carry) % HALF, lo % HALF>>

\* a time step without the floor
PidDtWrappedUnfloored(nowMs, last) == Sub32(nowMs, last)

\* dt of updatePIDNormal in thousandths of a second, as a 32-bit pair: the
\* millisecond difference is never negative, and dt <= 0.0f holds at 0 only
PidDtWrapped(nowMs, last) ==
    LET d == Sub32(nowMs, last) IN IF d = <<0, 0>> THEN <<0, 1>> ELSE d

\* a clamp of the upper side only
Clamp01HighOnly(v) == IF v > ONE THEN ONE ELSE v

Clamp01(v) == IF v < 0 THEN 0 ELSE IF v > ONE THEN ONE ELSE v

\* an update whose integral term is the integrator itself, not Ki times it
updatePIDNormalUnscaledI(p, error, nowMs) ==
    LET dt        == PidDt(nowMs, p.lastTimeNormal)
        Pout      == MulF(p.Kp, error)
        increment == MulF(error, dt)
        integ     == p.integralTerm + increment
        dErrorRaw == RDivS((error - p.lastError) * ONE, dt)
        dFilt     == Lerp(p.derivFilterAlphaNormal, dErrorRaw, p.dErrorFilteredNormal)
        Dout      == MulF(p.Kd, dFilt)
    IN  [pid |-> [p EXCEPT !.lastTimeNormal          = nowMs,
                           !.integralTerm            = integ,
                           !.g_lastIntegralIncrement = increment,
                           !.g_lastErrorForAW        = error,
                           !.dErrorFilteredNormal    = dFilt,
                           !.lastError               = error],
         ret |-> [out   |-> Clamp01(Pout + integ + Dout),
                  pTerm |-> Pout, iTerm |-> integ, dTerm |-> Dout]]

updatePIDNormal(p, error, nowMs) ==
    LET dt        == PidDt(nowMs, p.lastTimeNormal)
        Pout      == MulF(p.Kp, error)
        increment == MulF(error, dt)
        integ     == p.integralTerm + increment
        Iout      == MulF(p.Ki, integ)
        dErrorRaw == RDivS((error - p.lastError) * ONE, dt)
        dFilt     == Lerp(p.derivFilterAlphaNormal, dErrorRaw, p.dErrorFilteredNormal)
        Dout      == MulF(p.Kd, dFilt)
    IN  [pid |-> [p EXCEPT !.lastTimeNormal          = nowMs,
                           !.integralTerm            = integ,
                           !.g_lastIntegralIncrement = increment,
                           !.g_lastErrorForAW        = error,
                           !.dErrorFilteredNormal    = dFilt,
                           !.lastError               = error],
         ret |-> [out   |-> Clamp01(Pout + Iout + Dout),
                  pTerm |-> Pout, iTerm |-> Iout, dTerm |-> Dout]]

(***************************************************************************)
(* Control coordinator (exp_control.cpp).                                  *)
(***************************************************************************)
\* a rescale by ki / lastKi instead of lastKi / ki
RescaleIntegratorInverted(lastKi, ki, integ) ==
    IF Abs(lastKi - ki) > 0 /\ Abs(lastKi) > 0 /\ Abs(ki) > 0
    THEN LET ratio == RDivS(ki * ONE, lastKi) IN MulF(ratio, integ)
    ELSE integ

\* step 3 of updateExpController: the integrator after the rescale
RescaleIntegrator(lastKi, ki, integ) ==
    IF Abs(lastKi - ki) > 0 /\ Abs(lastKi) > 0 /\ Abs(ki) > 0
    THEN LET ratio == RDivS(lastKi * ONE, ki) IN MulF(ratio, integ)
    ELSE integ

\* step 3 of updateExpController: s_lastKi after the rescale
RescaleLastKi(lastKi, ki) == IF Abs(lastKi - ki) > 0 THEN ki ELSE lastKi

\* Step 3 again with both Ki values in units of 1e-10, the scale at which
\* the threshold of the comparison is visible: 1e-9 is 10 units.
KI_CHANGE_EPS == 10

\* the integrator after the rescale; the ratio of two Ki values has no unit
RescaleIntegratorFine(lastKi, ki, integ) ==
    IF /\ Abs(lastKi - ki) > KI_CHANGE_EPS
       /\ Abs(lastKi) > KI_CHANGE_EPS
       /\ Abs(ki) > KI_CHANGE_EPS
    THEN LET ratio == RDivS(lastKi * ONE, ki) IN MulF(ratio, integ)
    ELSE integ

\* a step that never stores the scheduled Ki
RescaleLastKiFineKept(lastKi, ki) == lastKi

\* s_lastKi after the rescale
RescaleLastKiFine(lastKi, ki) ==
    IF Abs(lastKi - ki) > KI_CHANGE_EPS THEN ki ELSE lastKi

\* step 6 of updateExpController: saturation check on the PID's return value
ExpSaturation(pidFraction, integ, increment) ==
    IF pidFraction > ONE
    THEN [pidFraction |-> ONE, integralTerm |-> integ - increment]
    ELSE IF pidFraction < 0
         THEN [pidFraction |-> 0, integralTerm |-> integ]
         ELSE [pidFraction |-> pidFraction, integralTerm |-> integ]

\* step 7 of updateExpController; minV, maxV are BARTELS_MIN/MAX_VOLTAGE
ExpVoltage(pidFraction, minV, maxV) ==
    LET v  == MulF(pidFraction, maxV)
        v1 == IF v > 0 /\ v < minV THEN minV ELSE v
    IN  IF v1 > maxV THEN maxV ELSE v1

\* a constant-voltage mode without the clamp to the maximum
ConstVoltageUnclamped(maxV) == kConstantVoltage

\* constant_voltage_control.cpp: the voltage of an ON call
ConstVoltage(maxV) ==
    IF kConstantVoltage > maxV THEN maxV ELSE kConstantVoltage

\* an update that drives the pump whatever systemOn says
updateConstantVoltageControlAlwaysOn(systemOn, maxV, calls) ==
    [desiredVoltageOut |-> IF kConstantVoltage > maxV THEN maxV ELSE kConstantVoltage,
     pump |-> Append(calls, [op |-> "runSequence",
                             voltage |-> IF kConstantVoltage > maxV THEN maxV
                                         ELSE kConstantVoltage])]

\* pump driver calls as the core issues them
RunSequenceCall(v) == [op |-> "runSequence", voltage |-> v]

StopPumpCall == [op |-> "stopPump", voltage |-> 0]

\* updateConstantVoltageControl: the out-parameter and the pump calls
updateConstantVoltageControl(systemOn, maxV, calls) ==
    IF ~systemOn
    THEN [desiredVoltageOut |-> 0, pump |-> Append(calls, StopPumpCall)]
    ELSE [desiredVoltageOut |-> ConstVoltage(maxV),
          pump |-> Append(calls, RunSequenceCall(ConstVoltage(maxV)))]

\* initExpController: SystemState fields it clears
ClearedGains(st) ==
    [st EXCEPT !.pGain = 0, !.iGain = 0, !.dGain = 0,
               !.filteredError = 0, !.currentAlpha = 0]

\* a step 1 that hands the raw error on unfiltered
FilterErrorRaw(filt, errRaw, b2) == [state |-> errRaw, currentAlpha |-> ONE]

\* step 1 of updateExpController: the error filter it holds and updates
FilterError(filt, errRaw, b2) == updateDynamicLPFilter(filt, errRaw, b2)

\* runs updateExpController's ON path on the statics (p, lastKi, filt);
\* yields the new statics, the out-parameters and the pump call
updateExpController(p, lastKi, filt, b2, flow, flowSetpoint, nowMs, minV, maxV) ==
    LET errRaw == flowSetpoint - flow
        f2     == FilterError(filt, errRaw, b2)
        absE   == Abs(f2.state)
        kp     == getExpKp(absE)
        ki     == getExpKi(absE)
        kd     == getExpKd(absE)
        p1     == [p EXCEPT !.integralTerm = RescaleIntegrator(lastKi, ki, p.integralTerm)]
        p2     == setPIDGains(p1, kp, ki, kd)
        u      == updatePIDNormal(p2, f2.state, nowMs)
        sat    == ExpSaturation(u.ret.out, u.pid.integralTerm,
                                u.pid.g_lastIntegralIncrement)
        volt   == ExpVoltage(sat.pidFraction, minV, maxV)
    IN  [pid            |-> [u.pid EXCEPT !.integralTerm = sat.integralTerm],
         s_lastKi       |-> RescaleLastKi(lastKi, ki),
         s_errorFilter  |-> f2,
         ret            |-> u.ret,
         kp |-> kp, ki |-> ki, kd |-> kd,
         pidFraction    |-> sat.pidFraction,
         desiredVoltage |-> volt,
         pTerm |-> u.ret.pTerm, iTerm |-> u.ret.iTerm, dTerm |-> u.ret.dTerm]

(***************************************************************************)
(* Buttons (buttons.cpp) and flow sensor (flow.cpp).                       *)
(***************************************************************************)
\* a level-triggered read: true whenever the pin is LOW
checkLowLevel(newState, oldState) == newState = LOW

checkFallingEdge(newState, oldState) == newState = LOW /\ oldState = HIGH

\* loadFromEEPROM: the values kept from the stored pair
\* the range tests are float comparisons, false on a stored NaN
LoadedError(storedError) ==
    IF FLt(storedError, -ERROR_PERCENT_LIMIT) \/ FLt(ERROR_PERCENT_LIMIT, storedError)
    THEN 0 ELSE storedError

LoadedSetpoint(storedSetpoint) ==
    IF FLt(storedSetpoint, FLOW_SP_MIN) \/ FLt(FLOW_SP_MAX, storedSetpoint)
    THEN RDiv(FLOW_SP_MIN + FLOW_SP_MAX, 2) ELSE storedSetpoint

\* x + d in float arithmetic, for a number d
FAdd(x, d) == IF x = NaN THEN NaN ELSE x + d

\* if (x > hi) x = hi, and if (x < lo) x = lo: a NaN stays
CapAbove(x, hi) == IF FLt(hi, x) THEN hi ELSE x

CapBelow(x, lo) == IF FLt(x, lo) THEN lo ELSE x

getErrorPercent(errorPercentValue) ==
    IF errorPercentValue = NaN THEN NaN ELSE -errorPercentValue

\* readFlow's compensated value for a complete 9-byte read of rawFlowInt
CompensatedFlow(rawFlowInt, errorPercent) ==
    LET rawFlow    == RDiv(rawFlowInt * ONE, SLF_SCALE_FACTOR_FLOW)
        compFactor == RDivS(ONE * ONE, ONE + RDiv(errorPercent, 100))
    IN  MulF(rawFlow, compFactor)

\* a loop() that re-initialises the controller on every iteration
PowerEdgeAlways(prev, cur) == TRUE

\* a loop() that re-initialises the controller on OFF -> ON only
PowerEdgeOnOnly(prev, cur) == ~prev /\ cur

\* step 2 of loop(): the transitions that call initExpController
PowerEdge(prev, cur) == (~prev /\ cur) \/ (prev /\ ~cur)

\* step 3 of loop()
ToggledMode(mode) ==
    IF mode = CONTROL_MODE_EXP THEN CONTROL_MODE_CONST_VOLTAGE ELSE CONTROL_MODE_EXP

\* a loop() that records the unclamped term sum as the fraction
SaveResultsRawSum(st, desiredVoltage, pidFraction, pTerm, iTerm, dTerm) ==
    [st EXCEPT !.desiredVoltage = desiredVoltage, !.pidOutput = pTerm + iTerm + dTerm,
               !.pTerm = pTerm, !.iTerm = iTerm, !.dTerm = dTerm]

\* step 6 of loop(): the control outputs saved in g_systemState
SaveResults(st, desiredVoltage, pidFraction, pTerm, iTerm, dTerm) ==
    [st EXCEPT !.desiredVoltage = desiredVoltage, !.pidOutput = pidFraction,
               !.pTerm = pTerm, !.iTerm = iTerm, !.dTerm = dTerm]

\* step 9 of loop(): whole seconds since setup exceed the run duration
RunExpiredAtLimit(currentTimeMs, start) ==
    (currentTimeMs - start) \div 1000 >= SLF_RUN_DURATION

RunExpired(currentTimeMs, start) ==
    (currentTimeMs - start) \div 1000 > SLF_RUN_DURATION

(***************************************************************************)
(* State.                                                                  *)
(***************************************************************************)
VARIABLES
    pc,               \* position of loop(): "buttons", "control" or "halted"
    cfg,              \* the build's voltage limits [minV, maxV]
    now,              \* millis()
    startTime,        \* main.cpp
    ticks,            \* loop iterations started
    btn,              \* statics of buttons.cpp
    eeprom,           \* the two stored floats
    previousSystemOn, \* main.cpp
    g_systemState,    \* main.cpp
    pid,              \* statics of pid.cpp
    pidRet,           \* return value and out-parameters of the last updatePIDNormal
    s_lastKi,         \* exp_control.cpp
    s_errorFilter,    \* exp_control.cpp
    s_b2,             \* filter.cpp
    sensor,           \* statics of flow.cpp
    pump,             \* pump driver calls issued in the current loop iteration
    tpf,              \* a TwoPoleFilter (filter.cpp), driven on its own
    held,             \* the input held on tpf
    h_allZero,        \* every error fed to the PID since its last reset was 0
    gq                \* the arguments and results of a function evaluated on its own:
                      \* a gain curve and its input, or two clock readings

vars == <<pc, cfg, now, startTime, ticks, btn, eeprom, previousSystemOn,
          g_systemState, pid, pidRet, s_lastKi, s_errorFilter, s_b2, sensor,
          pump, tpf, held, h_allZero, gq>>

loopVars == <<pc, cfg, now, startTime, ticks, btn, eeprom, previousSystemOn,
              g_systemState, sensor, pump>>

ctlVars == <<pid, pidRet, s_lastKi, s_errorFilter, s_b2>>

probeVars == <<tpf, held, h_allZero, gq>>

(***************************************************************************)
(* Bounds and input sets.                                                  *)
(***************************************************************************)
MaxTicks == 3

\* builds: config.h as shipped, one with a raised minimum, one with a
\* maximum below kConstantVoltage
VoltageConfigs ==
    { [minV |-> BARTELS_MIN_VOLTAGE, maxV |-> BARTELS_MAX_VOLTAGE],
      [minV |-> 100000, maxV |-> BARTELS_MAX_VOLTAGE],
      [minV |-> BARTELS_MIN_VOLTAGE, maxV |-> 60000] }

\* milliseconds between the clock readings of consecutive loop iterations
TickMs == {40, 4000}

\* milliseconds between the start of an iteration and updatePIDNormal,
\* readFlow's delay apart
GapMs == {0}

AllHigh ==
    [onoff |-> HIGH, flowUp |-> HIGH, flowDown |-> HIGH,
     errorUp |-> HIGH, errorDown |-> HIGH, modeToggle |-> HIGH]

\* pin levels read in one updateButtons
PinInputs ==
    { AllHigh,
      [AllHigh EXCEPT !.onoff = LOW],
      [AllHigh EXCEPT !.modeToggle = LOW],
      [AllHigh EXCEPT !.onoff = LOW, !.modeToggle = LOW],
      [AllHigh EXCEPT !.flowUp = LOW, !.errorDown = LOW],
      [AllHigh EXCEPT !.flowDown = LOW, !.errorUp = LOW] }

\* EEPROM contents at boot: a valid pair and an out-of-range pair
StoredPairs ==
    { [error |-> 0, setpoint |-> 2000], [error |-> 77000, setpoint |-> 9000] }

\* one readFlow: fewer than 9 bytes, or a complete frame
SensorReads ==
    { [avail |-> FALSE, rawFlowInt |-> 0, rawTempInt |-> 0, flags |-> 0],
      [avail |-> TRUE, rawFlowInt |-> 30000, rawTempInt |-> 5000, flags |-> 1] }

(***************************************************************************)
(* State after setup().                                                    *)
(***************************************************************************)
ZeroPid ==
    [Kp |-> 0, Ki |-> 0, Kd |-> 0, derivFilterAlphaNormal |-> 0,
     dErrorFilteredNormal |-> 0, integralTerm |-> 0, lastError |-> 0,
     lastTimeNormal |-> 0, g_lastIntegralIncrement |-> 0, g_lastErrorForAW |-> 0]

ZeroRet == [out |-> 0, pTerm |-> 0, iTerm |-> 0, dTerm |-> 0]

ZeroSystemState ==
    [currentTimeMs |-> 0, flow |-> 0, setpoint |-> 0, errorPercent |-> 0,
     temperature |-> 0, bubbleDetected |-> FALSE, systemOn |-> FALSE,
     controlMode |-> CONTROL_MODE_EXP, pidOutput |-> 0, desiredVoltage |-> 0,
     pTerm |-> 0, iTerm |-> 0, dTerm |-> 0, pGain |-> 0, iGain |-> 0,
     dGain |-> 0, filteredError |-> 0, currentAlpha |-> 0]

ProbeIdle ==
    /\ tpf = initTwoPoleFilter
    /\ held = 0
    /\ h_allZero = TRUE
    /\ gq = [cv |-> EXP_KI, x |-> 0, sched |-> getExpKi(0),
             recip |-> exponentialFunctionReciprocal(0, EXP_KI.A, EXP_KI.K,
                                                     EXP_KI.B, EXP_KI.C)]

CtlInit ==
    /\ pid = initPID(ZeroPid, 0)
    /\ pidRet = ZeroRet
    /\ s_lastKi = 0
    /\ s_errorFilter = initDynamicLPFilter
    /\ s_b2 = SlopeMatchedB2

\* a power flag that starts set
systemOnStartsSet == TRUE

\* static bool systemOn: its initializer; no code path loads it from EEPROM
systemOnInitial == FALSE

Init ==
    /\ pc = "buttons"
    /\ cfg \in VoltageConfigs
    /\ now = 0
    /\ startTime = 0
    /\ ticks = 0
    /\ eeprom \in StoredPairs
    /\ btn = [oldState |-> AllHigh, systemOn |-> systemOnInitial,
              flowSetpointValue |-> LoadedSetpoint(eeprom.setpoint),
              errorPercentValue |-> LoadedError(eeprom.error),
              modeTogglePressed |-> FALSE]
    /\ previousSystemOn = FALSE
    /\ g_systemState = ZeroSystemState
    /\ CtlInit
    /\ sensor \in [measuringFlow : BOOLEAN, readAttemptCnt : {0}, rawTempC : {0},
                    lastFlags : {0}]
    /\ pump = <<>>
    /\ ProbeIdle

(***************************************************************************)
(* loop(), steps 1 to 3: buttons, power edge, mode toggle.                 *)
(***************************************************************************)
\* buttons whose mode press also toggles the power
updateButtonsCoupled(b, pins) ==
    LET eOn   == checkFallingEdge(pins.onoff, b.oldState.onoff)
        eMode == checkFallingEdge(pins.modeToggle, b.oldState.modeToggle)
    IN  [btn |-> [b EXCEPT !.oldState = pins,
                           !.systemOn = IF eOn \/ eMode THEN ~b.systemOn
                                        ELSE b.systemOn,
                           !.modeTogglePressed = eMode],
         changed |-> FALSE]

updateButtons(b, pins) ==
    LET o      == b.oldState
        eOn    == checkFallingEdge(pins.onoff, o.onoff)
        eUp    == checkFallingEdge(pins.flowUp, o.flowUp)
        eDown  == checkFallingEdge(pins.flowDown, o.flowDown)
        eEUp   == checkFallingEdge(pins.errorUp, o.errorUp)
        eEDown == checkFallingEdge(pins.errorDown, o.errorDown)
        eMode  == checkFallingEdge(pins.modeToggle, o.modeToggle)
        sp1    == IF eUp THEN CapAbove(FAdd(b.flowSetpointValue, FLOW_STEP_SIZE),
                                       FLOW_SP_MAX)
                  ELSE b.flowSetpointValue
        sp2    == IF eDown THEN CapBelow(FAdd(sp1, -FLOW_STEP_SIZE), FLOW_SP_MIN)
                  ELSE sp1
        ep1    == IF eEUp THEN CapAbove(FAdd(b.errorPercentValue, ERROR_STEP),
                                        ERROR_PERCENT_LIMIT)
                  ELSE b.errorPercentValue
        ep2    == IF eEDown THEN CapBelow(FAdd(ep1, -ERROR_STEP), -ERROR_PERCENT_LIMIT)
                  ELSE ep1
    IN  [btn |-> [oldState |-> pins,
                  systemOn |-> IF eOn THEN ~b.systemOn ELSE b.systemOn,
                  flowSetpointValue |-> sp2,
                  errorPercentValue |-> ep2,
                  modeTogglePressed |-> eMode],
         changed |-> eUp \/ eDown \/ eEUp \/ eEDown]

\* steps 1 to 3 of an iteration that starts d ms after the previous one,
\* for some d in T
LoopButtonsIn(T) ==
    /\ pc = "buttons"
    /\ ticks < MaxTicks
    /\ \E pins \in PinInputs, d \in T :
         LET ub  == updateButtons(btn, pins)
             cur == ub.btn.systemOn
             st1 == [g_systemState EXCEPT !.systemOn = cur]
             st2 == IF PowerEdge(previousSystemOn, cur) THEN ClearedGains(st1) ELSE st1
         IN  /\ now' = now + d
             /\ btn' = ub.btn
             /\ eeprom' = IF ub.changed
                          THEN [error |-> ub.btn.errorPercentValue,
                                setpoint |-> ub.btn.flowSetpointValue]
                          ELSE eeprom
             /\ IF PowerEdge(previousSystemOn, cur)
                THEN /\ pid' = initPID(pid, now')
                     /\ s_lastKi' = 0
                     /\ s_errorFilter' = initDynamicLPFilter
                     /\ s_b2' = SlopeMatchedB2
                ELSE UNCHANGED <<pid, s_lastKi, s_errorFilter, s_b2>>
             /\ previousSystemOn' = cur
             /\ g_systemState' =
                   IF ub.btn.modeTogglePressed
                   THEN [st2 EXCEPT !.controlMode = ToggledMode(st2.controlMode)]
                   ELSE st2
    /\ ticks' = ticks + 1
    /\ pump' = <<>>
    /\ pc' = "control"
    /\ UNCHANGED <<cfg, startTime, sensor, pidRet, probeVars>>

LoopButtons == LoopButtonsIn(TickMs)

(***************************************************************************)
(* loop(), steps 4 to 9: sensor, control, results, run-duration check.     *)
(***************************************************************************)
\* a readFlow that clears the last temperature and flags when it has no data
readFlowClearing(sn, rd, errorPercent) ==
    IF ~sn.measuringFlow \/ ~rd.avail
    THEN [flow |-> 0, sensor |-> [sn EXCEPT !.rawTempC = 0, !.lastFlags = 0],
          delayMs |-> 0]
    ELSE [flow |-> CompensatedFlow(rd.rawFlowInt, errorPercent),
          sensor |-> [sn EXCEPT !.rawTempC = RDiv(rd.rawTempInt * ONE, 200),
                                !.lastFlags = rd.flags],
          delayMs |-> 0]

\* readFlow: the value returned and the statics it leaves
\* (readAttemptCnt only matters below 5 and is kept at 5 from there on);
\* delayMs is the delay(100) of the early attempts
readFlow(sn, rd, errorPercent) ==
    IF ~sn.measuringFlow
    THEN [flow |-> 0, sensor |-> sn, delayMs |-> 0]
    ELSE LET cnt == Min(sn.readAttemptCnt + 1, 5)
             sn1 == [sn EXCEPT !.readAttemptCnt = cnt]
             dl  == IF cnt < 5 THEN 100 ELSE 0
         IN  IF ~rd.avail
             THEN [flow |-> 0, sensor |-> sn1, delayMs |-> dl]
             ELSE [flow |-> CompensatedFlow(rd.rawFlowInt, errorPercent),
                   sensor |-> [sn1 EXCEPT !.rawTempC = RDiv(rd.rawTempInt * ONE, 200),
                                          !.lastFlags = rd.flags],
                   delayMs |-> dl]

\* step 4 of loop()
Acquired(st, rf, b) ==
    [st EXCEPT !.flow = rf.flow,
               !.setpoint = b.flowSetpointValue,
               !.errorPercent = getErrorPercent(b.errorPercentValue),
               !.temperature = rf.sensor.rawTempC,
               !.bubbleDetected = (rf.sensor.lastFlags % 2 = 1)]

\* steps 8 and 9 of loop(), given the state and pump calls of steps 4 to 6
FinishTick(st, sn, calls, t) ==
    /\ g_systemState' = [st EXCEPT !.currentTimeMs = t]
    /\ IF RunExpired(t, startTime)
       THEN /\ sensor' = [sn EXCEPT !.measuringFlow = FALSE]
            /\ pump' = Append(calls, StopPumpCall)
            /\ pc' = "halted"
       ELSE /\ sensor' = sn
            /\ pump' = calls
            /\ pc' = "buttons"

LoopControlExp ==
    /\ pc = "control"
    /\ g_systemState.systemOn
    /\ g_systemState.controlMode = CONTROL_MODE_EXP
    /\ \E rd \in SensorReads, g \in GapMs :
         \E rf \in {readFlow(sensor, rd, getErrorPercent(btn.errorPercentValue))} :
         \E st \in {Acquired(g_systemState, rf, btn)} :
         \E r \in {updateExpController(pid, s_lastKi, s_errorFilter, s_b2,
                                       st.flow, st.setpoint,
                                       now + rf.delayMs + g,
                                       cfg.minV, cfg.maxV)} :
         LET st1 == [st EXCEPT !.filteredError = r.s_errorFilter.state,
                               !.currentAlpha = r.s_errorFilter.currentAlpha,
                               !.pGain = r.kp, !.iGain = r.ki, !.dGain = r.kd]
         IN  /\ now' = now + rf.delayMs + g
             /\ pid' = r.pid
             /\ pidRet' = r.ret
             /\ s_lastKi' = r.s_lastKi
             /\ s_errorFilter' = r.s_errorFilter
             /\ FinishTick(SaveResults(st1, r.desiredVoltage, r.pidFraction,
                                       r.pTerm, r.iTerm, r.dTerm),
                           rf.sensor,
                           Append(pump, RunSequenceCall(r.desiredVoltage)),
                           now')
    /\ UNCHANGED <<cfg, startTime, ticks, btn, eeprom, previousSystemOn, s_b2, probeVars>>

LoopControlConst ==
    /\ pc = "control"
    /\ g_systemState.systemOn
    /\ g_systemState.controlMode = CONTROL_MODE_CONST_VOLTAGE
    /\ \E rd \in SensorReads, g \in GapMs :
         LET rf == readFlow(sensor, rd, getErrorPercent(btn.errorPercentValue))
             st == Acquired(g_systemState, rf, btn)
             cv == updateConstantVoltageControl(st.systemOn, cfg.maxV, pump)
         IN  /\ now' = now + rf.delayMs + g
             /\ FinishTick(SaveResults(st, cv.desiredVoltageOut, 0, 0, 0, 0),
                           rf.sensor, cv.pump, now')
    /\ UNCHANGED <<cfg, startTime, ticks, btn, eeprom, previousSystemOn, ctlVars, probeVars>>

\* an else branch that leaves the pump alone
OffBranchNoStop(calls) ==
    [pump |-> calls, desiredVoltage |-> 0,
     pidFraction |-> 0, pTerm |-> 0, iTerm |-> 0, dTerm |-> 0]

\* the else branch of step 5: the pump calls and the five locals
OffBranch(calls) ==
    [pump |-> Append(calls, StopPumpCall), desiredVoltage |-> 0,
     pidFraction |-> 0, pTerm |-> 0, iTerm |-> 0, dTerm |-> 0]

LoopControlOff ==
    /\ pc = "control"
    /\ ~g_systemState.systemOn
    /\ \E rd \in SensorReads, g \in GapMs :
         LET rf  == readFlow(sensor, rd, getErrorPercent(btn.errorPercentValue))
             st  == Acquired(g_systemState, rf, btn)
             off == OffBranch(pump)
         IN  /\ now' = now + rf.delayMs + g
             /\ FinishTick(SaveResults(st, off.desiredVoltage, off.pidFraction,
                                       off.pTerm, off.iTerm, off.dTerm),
                           rf.sensor, off.pump, now')
    /\ UNCHANGED <<cfg, startTime, ticks, btn, eeprom, previousSystemOn, ctlVars, probeVars>>

Next == LoopButtons \/ LoopControlExp \/ LoopControlConst \/ LoopControlOff

Spec == Init /\ [][Next]_vars

(***************************************************************************)
(* The main loop over a run of ten hours: the clock readings of            *)
(* consecutive iterations are hours apart, around the run duration.        *)
(***************************************************************************)
RunTickMs == {18000000, 18000999}

LoopButtonsLate == LoopButtonsIn(RunTickMs)

NextRun == LoopButtonsLate \/ LoopControlExp \/ LoopControlConst \/ LoopControlOff

SpecRun == Init /\ [][NextRun]_vars

(***************************************************************************)
(* The PID engine with the coordinator's gain step, driven with arbitrary  *)
(* gains, errors and clock readings.                                       *)
(***************************************************************************)
MaxUpdates == 3

\* (kp, ki, kd) handed to the rescale step and to setPIDGains
GainTriples == { <<0, 0, 0>>, <<500, 1000, 100>>, <<500, 2000, 100>>, <<0, 1000, 0>> }

ErrVals == {-1000, 0, 1000}

EngDtMs == {0, 500, 10000}

LoopRest ==
    /\ now = 0
    /\ startTime = 0
    /\ ticks = 0
    /\ eeprom = [error |-> 0, setpoint |-> 0]
    /\ btn = [oldState |-> AllHigh, systemOn |-> FALSE, flowSetpointValue |-> 0,
              errorPercentValue |-> 0, modeTogglePressed |-> FALSE]
    /\ previousSystemOn = FALSE
    /\ g_systemState = ZeroSystemState
    /\ sensor = [measuringFlow |-> FALSE, readAttemptCnt |-> 0, rawTempC |-> 0,
                 lastFlags |-> 0]
    /\ pump = <<>>

LoopIdle ==
    /\ cfg = [minV |-> BARTELS_MIN_VOLTAGE, maxV |-> BARTELS_MAX_VOLTAGE]
    /\ LoopRest

InitEngine == pc = "eng_gains" /\ LoopIdle /\ CtlInit /\ ProbeIdle

\* initExpController's reset of the engine: initPID and s_lastKi
EngineReset ==
    /\ pc = "eng_gains"
    /\ ticks > 0
    /\ pid' = initPID(pid, now)
    /\ s_lastKi' = 0
    /\ h_allZero' = TRUE
    /\ pc' = "eng_reset"
    /\ UNCHANGED <<cfg, now, startTime, ticks, btn, eeprom, previousSystemOn,
                   g_systemState, sensor, pump, pidRet, s_errorFilter, s_b2,
                   tpf, held, gq>>

\* steps 3 and 4 of updateExpController for scheduled gains g
EngineGains ==
    /\ pc \in {"eng_gains", "eng_reset"}
    /\ ticks < MaxUpdates
    /\ \E g \in GainTriples :
         /\ pid' = setPIDGains(
                     [pid EXCEPT !.integralTerm =
                          RescaleIntegrator(s_lastKi, g[2], pid.integralTerm)],
                     g[1], g[2], g[3])
         /\ s_lastKi' = RescaleLastKi(s_lastKi, g[2])
    /\ pc' = "eng_update"
    /\ UNCHANGED <<cfg, now, startTime, ticks, btn, eeprom, previousSystemOn,
                   g_systemState, sensor, pump, pidRet, s_errorFilter, s_b2, probeVars>>

EngineUpdate ==
    /\ pc = "eng_update"
    /\ \E err \in ErrVals, d \in EngDtMs :
         \E u \in {updatePIDNormal(pid, err, now + d)} :
            /\ now' = now + d
            /\ pid' = u.pid
            /\ pidRet' = u.ret
            /\ h_allZero' = (h_allZero /\ err = 0)
    /\ ticks' = ticks + 1
    /\ pc' = "eng_gains"
    /\ UNCHANGED <<cfg, startTime, btn, eeprom, previousSystemOn, g_systemState,
                   sensor, pump, s_lastKi, s_errorFilter, s_b2, tpf, held, gq>>

NextEngine == EngineReset \/ EngineGains \/ EngineUpdate

SpecEngine == InitEngine /\ [][NextEngine]_vars

(***************************************************************************)
(* updateConstantVoltageControl called on whatever state the engine has    *)
(* reached, with systemOn true or false.                                   *)
(***************************************************************************)
FlowVals == {0, 3000}

InitConst == pc = "eng_gains" /\ cfg \in VoltageConfigs /\ LoopRest /\ CtlInit /\ ProbeIdle

ConstVoltageCall ==
    /\ pc = "eng_gains"
    /\ \E on \in BOOLEAN, flow \in FlowVals :
         \E cv \in {updateConstantVoltageControl(on, cfg.maxV, <<>>)} :
            /\ g_systemState' =
                  [g_systemState EXCEPT !.systemOn = on,
                                        !.controlMode = CONTROL_MODE_CONST_VOLTAGE,
                                        !.flow = flow,
                                        !.desiredVoltage = cv.desiredVoltageOut]
            /\ pump' = cv.pump
    /\ pc' = "const"
    /\ UNCHANGED <<cfg, now, startTime, ticks, btn, eeprom, previousSystemOn,
                   sensor, ctlVars, probeVars>>

NextConst == EngineReset \/ EngineGains \/ EngineUpdate \/ ConstVoltageCall

SpecConst == InitConst /\ [][NextConst]_vars

(***************************************************************************)
(* Steps 3 and 4 of updateExpController on Ki values 1e-10 apart.  Here    *)
(* s_lastKi and pid.Ki are in units of 1e-10; the integrator keeps its     *)
(* thousandths.                                                            *)
(***************************************************************************)
KiFineVals == {0, 5, 10, 15, 100, 105, 110, 115, 200}

IntegVals == {-2000, 0, 1000, 3000}

InitRescale ==
    /\ pc = "rescale"
    /\ LoopIdle
    /\ ProbeIdle
    /\ pidRet = ZeroRet
    /\ s_errorFilter = initDynamicLPFilter
    /\ s_b2 = SlopeMatchedB2
    /\ s_lastKi \in KiFineVals
    /\ \E i \in IntegVals :
         pid = setPIDGains([initPID(ZeroPid, 0) EXCEPT !.integralTerm = i],
                           0, s_lastKi, 0)

\* the rescale, the update of s_lastKi and setPIDGains for a scheduled ki
RescaleStep ==
    /\ pc = "rescale"
    /\ ticks < MaxUpdates
    /\ \E ki \in KiFineVals :
         /\ pid' = setPIDGains(
                     [pid EXCEPT !.integralTerm =
                          RescaleIntegratorFine(s_lastKi, ki, pid.integralTerm)],
                     0, ki, 0)
         /\ s_lastKi' = RescaleLastKiFine(s_lastKi, ki)
    /\ ticks' = ticks + 1
    /\ UNCHANGED <<pc, cfg, now, startTime, btn, eeprom, previousSystemOn,
                   g_systemState, sensor, pump, pidRet, s_errorFilter, s_b2, probeVars>>

NextRescale == RescaleStep

SpecRescale == InitRescale /\ [][NextRescale]_vars

(***************************************************************************)
(* initButtons on arbitrary EEPROM contents, then updateButtons on         *)
(* arbitrary pin levels.  An erased EEPROM reads as NaN.                   *)
(***************************************************************************)
StoredErrors == {-50000, 0, 49000, 77000, NEG_INF, NaN}

StoredSetpoints == {0, 1950, 9000, -50, INF, NaN}

InitButtons ==
    /\ pc = "poll"
    /\ cfg = [minV |-> BARTELS_MIN_VOLTAGE, maxV |-> BARTELS_MAX_VOLTAGE]
    /\ now = 0
    /\ startTime = 0
    /\ ticks = 0
    /\ eeprom \in [error : StoredErrors, setpoint : StoredSetpoints]
    /\ btn = [oldState |-> AllHigh, systemOn |-> systemOnInitial,
              flowSetpointValue |-> LoadedSetpoint(eeprom.setpoint),
              errorPercentValue |-> LoadedError(eeprom.error),
              modeTogglePressed |-> FALSE]
    /\ previousSystemOn = FALSE
    /\ g_systemState = ZeroSystemState
    /\ sensor = [measuringFlow |-> FALSE, readAttemptCnt |-> 0, rawTempC |-> 0,
                 lastFlags |-> 0]
    /\ pump = <<>>
    /\ CtlInit
    /\ ProbeIdle

\* one updateButtons, with its saveToEEPROM
ButtonsPoll ==
    /\ pc = "poll"
    /\ \E pins \in PinInputs :
         \E ub \in {updateButtons(btn, pins)} :
            /\ btn' = ub.btn
            /\ eeprom' = IF ub.changed
                         THEN [error |-> ub.btn.errorPercentValue,
                               setpoint |-> ub.btn.flowSetpointValue]
                         ELSE eeprom
    /\ UNCHANGED <<pc, cfg, now, startTime, ticks, previousSystemOn, g_systemState,
                   sensor, pump, ctlVars, probeVars>>

NextButtons == ButtonsPoll

SpecButtons == InitButtons /\ [][NextButtons]_vars

(***************************************************************************)
(* The controller's stage-1 filter on arbitrary raw errors, NaN among      *)
(* them: the raw error is setpoint - flow, and loadFromEEPROM lets a       *)
(* stored NaN through as the setpoint.                                     *)
(***************************************************************************)
PoleInputs == {-2000, -1, 0, 1, 50, 1000, NaN}

PoleStates == {-1500, 0, 700}

InitPole ==
    /\ pc = "pole"
    /\ LoopIdle
    /\ ProbeIdle
    /\ pid = initPID(ZeroPid, 0)
    /\ pidRet = ZeroRet
    /\ s_lastKi = 0
    /\ s_b2 = SlopeMatchedB2
    /\ s_errorFilter \in [state : PoleStates, currentAlpha : {0}]

\* step 1 of updateExpController on the raw error in; held keeps the input
PoleUpdate ==
    /\ pc = "pole"
    /\ \E in \in PoleInputs :
         /\ s_errorFilter' = FilterError(s_errorFilter, in, s_b2)
         /\ held' = in
    /\ UNCHANGED <<loopVars, pid, pidRet, s_lastKi, s_b2, tpf, h_allZero, gq>>

NextPole == PoleUpdate

SpecPole == InitPole /\ [][NextPole]_vars

(***************************************************************************)
(* The bisection of computeB2ViaSlope, iteration by iteration, on several  *)
(* parameter sets.                                                         *)
(***************************************************************************)
BisectParams ==
    [A1 : {1, 500}, K1 : {0, 230}, B1 : {1000, 40000},
     A2 : {0, 500}, K2 : {0, 500, 1000}, Tref : {0, 50, 1000}]

InitBisect ==
    /\ pc = "bisect"
    /\ LoopIdle
    /\ CtlInit
    /\ tpf = initTwoPoleFilter
    /\ held = 0
    /\ h_allZero = TRUE
    /\ \E ps \in BisectParams : gq = B2Start(ps)

BisectStep ==
    /\ pc = "bisect"
    /\ ~gq.done
    /\ gq' = B2Step(gq)
    /\ UNCHANGED <<loopVars, ctlVars, tpf, held, h_allZero>>

NextBisect == BisectStep

SpecBisect == InitBisect /\ [][NextBisect]_vars

(***************************************************************************)
(* The time step of updatePIDNormal on 32-bit clock readings: last is      *)
(* lastTimeNormal, now the reading of millis() in the update.              *)
(***************************************************************************)
ClockVals ==
    { <<0, 0>>, <<0, 1>>, <<0, 40>>, <<0, 65535>>, <<1, 0>>, <<1, 39>>,
      <<32767, 65535>>, <<32768, 0>>, <<65535, 0>>, <<65535, 65496>>,
      <<65535, 65535>> }

ClockQuery(last, nowMs) ==
    [last |-> last, now |-> nowMs, dt |-> PidDtWrapped(nowMs, last)]

InitClock ==
    /\ pc = "clock"
    /\ LoopIdle
    /\ CtlInit
    /\ tpf = initTwoPoleFilter
    /\ held = 0
    /\ h_allZero = TRUE
    /\ \E c \in ClockVals : gq = ClockQuery(c, c)

\* lines 62-67 of updatePIDNormal: read the clock, take the step, keep the
\* reading as lastTimeNormal
ClockStep ==
    /\ pc = "clock"
    /\ \E n \in ClockVals : gq' = ClockQuery(gq.now, n)
    /\ UNCHANGED <<loopVars, ctlVars, tpf, held, h_allZero>>

NextClock == ClockStep

SpecClock == InitClock /\ [][NextClock]_vars

(***************************************************************************)
(* updateExpController next to the two-pole cascade of the filter module:  *)
(* tpf is a TwoPoleFilter fed the same raw errors and reset together with  *)
(* the controller.                                                         *)
(***************************************************************************)
CondSetpoints == {1000, 2000}

CondFlows == {0, 500, 3000}

InitCond == pc = "cond" /\ LoopIdle /\ CtlInit /\ ProbeIdle

\* initExpController, and initTwoPoleFilter on the cascade
CondReset ==
    /\ pc = "cond"
    /\ ticks > 0
    /\ pid' = initPID(pid, now)
    /\ s_lastKi' = 0
    /\ s_errorFilter' = initDynamicLPFilter
    /\ s_b2' = SlopeMatchedB2
    /\ tpf' = initTwoPoleFilter
    /\ pc' = "cond_reset"
    /\ UNCHANGED <<cfg, now, startTime, ticks, btn, eeprom, previousSystemOn,
                   g_systemState, sensor, pump, pidRet, held, h_allZero, gq>>

\* updateExpController with the system on, and updateTwoPoleFilter on the
\* cascade with the same raw error
CondUpdate ==
    /\ pc \in {"cond", "cond_reset"}
    /\ ticks < MaxUpdates
    /\ \E sp \in CondSetpoints, fl \in CondFlows, d \in TickMs :
         \E r \in {updateExpController(pid, s_lastKi, s_errorFilter, s_b2,
                                       fl, sp, now + d, cfg.minV, cfg.maxV)} :
            /\ now' = now + d
            /\ pid' = r.pid
            /\ pidRet' = r.ret
            /\ s_lastKi' = r.s_lastKi
            /\ s_errorFilter' = r.s_errorFilter
            /\ pump' = Append(pump, RunSequenceCall(r.desiredVoltage))
            /\ held' = sp - fl
            /\ tpf' = updateTwoPoleFilter(tpf, sp - fl, s_b2)
    /\ ticks' = ticks + 1
    /\ pc' = "cond"
    /\ UNCHANGED <<cfg, startTime, btn, eeprom, previousSystemOn, g_systemState,
                   sensor, s_b2, h_allZero, gq>>

NextCond == CondReset \/ CondUpdate

SpecCond == InitCond /\ [][NextCond]_vars

(***************************************************************************)
(* The gain scheduler evaluated on arbitrary curves and inputs.            *)
(***************************************************************************)
Curves == [A : {0, 500, 1000}, K : {0, 500, 1000}, B : {0, 1000, 40000}, C : {0, 1000}]

Mags == {0, 1, 500, 990, 1000, 2000}

GainQuery(cv, m) ==
    [cv |-> cv, x |-> m, sched |-> getExpGain(cv, m),
     recip |-> exponentialFunctionReciprocal(m, cv.A, cv.K, cv.B, cv.C)]

InitGain ==
    /\ pc = "gain"
    /\ LoopIdle
    /\ CtlInit
    /\ tpf = initTwoPoleFilter
    /\ held = 0
    /\ h_allZero = TRUE
    /\ gq = GainQuery(EXP_KI, 0)

GainEval ==
    /\ pc = "gain"
    /\ \E cv \in Curves, m \in Mags : gq' = GainQuery(cv, m)
    /\ UNCHANGED <<loopVars, ctlVars, tpf, held, h_allZero>>

NextGain == GainEval

SpecGain == InitGain /\ [][NextGain]_vars

(***************************************************************************)
(* The two-pole error conditioner fed a constant input on every update.    *)
(***************************************************************************)
HeldVals == {-1000, 0, 1, 50, 2000}

DynStates == {-2000, 1, 700}

EmaStates == { resetEMA, [state |-> -500, primed |-> TRUE], [state |-> 3000, primed |-> TRUE] }

InitFilter ==
    /\ pc = "filter"
    /\ LoopIdle
    /\ CtlInit
    /\ held \in HeldVals
    /\ tpf \in [dyn : [state : DynStates, currentAlpha : {0}], ema : EmaStates]
    /\ h_allZero = TRUE
    /\ gq = GainQuery(EXP_KI, 0)

FilterUpdate ==
    /\ pc = "filter"
    /\ tpf' = updateTwoPoleFilter(tpf, held, s_b2)
    /\ UNCHANGED <<loopVars, ctlVars, held, h_allZero, gq>>

NextFilter == FilterUpdate

\* loop() runs forever, so the next update always comes
SpecFilter == InitFilter /\ [][NextFilter]_vars /\ WF_vars(FilterUpdate)

(***************************************************************************)
(* Properties of the main loop (Spec).                                     *)
(***************************************************************************)
\* a tick of loop() has run to its end
TickDone == pc # "control" /\ ticks > 0

RunSequenceVoltages ==
    { pump[i].voltage : i \in { j \in 1..Len(pump) : pump[j].op = "runSequence" } }

C3_OffTickOutputsZero ==
    (TickDone /\ ~g_systemState.systemOn) =>
        /\ g_systemState.pidOutput = 0
        /\ g_systemState.pTerm = 0
        /\ g_systemState.iTerm = 0
        /\ g_systemState.dTerm = 0
        /\ g_systemState.desiredVoltage = 0
        /\ \E i \in 1..Len(pump) : pump[i] = StopPumpCall
        /\ RunSequenceVoltages = {}

\* an OFF tick that follows a controller run which had driven the output up
C3_OffAfterDriving ==
    /\ TickDone
    /\ ~g_systemState.systemOn
    /\ pidRet.out > 0
    /\ pid.Ki > 0

\* C4: a tick whose system-on flag differs from the previous tick's enters its
\* control step with the integrator, the last error, the derivative filter
\* state, the error-filter state and the remembered Ki all 0.
C4_PowerEdgeResets ==
    [][(pc = "buttons" /\ pc' = "control"
        /\ g_systemState'.systemOn # g_systemState.systemOn)
       => (/\ pid'.integralTerm = 0
           /\ pid'.lastError = 0
           /\ pid'.dErrorFilteredNormal = 0
           /\ s_errorFilter'.state = 0
           /\ s_lastKi' = 0)]_vars

\* the control step of a tick that switched OFF a controller whose last tick
\* had a nonzero integral term
C4_ResetOnSwitchOff ==
    /\ pc = "control"
    /\ ~g_systemState.systemOn
    /\ g_systemState.desiredVoltage > 0
    /\ g_systemState.iTerm # 0
    /\ pid.integralTerm = 0
    /\ s_lastKi = 0

\* C5: when the sum of the three terms of an exponential-mode ON tick exceeds
\* 1, the integrator after the tick equals its value before that tick's
\* integration step and the recorded fraction is exactly 1.
C5_AntiWindupUndoesIncrement ==
    [][(/\ pc = "control"
        /\ pc' # "control"
        /\ g_systemState.systemOn
        /\ g_systemState.controlMode = CONTROL_MODE_EXP
        /\ pidRet'.pTerm + pidRet'.iTerm + pidRet'.dTerm > ONE)
       => (/\ pid'.integralTerm =
                 RescaleIntegrator(s_lastKi, g_systemState'.iGain, pid.integralTerm)
           /\ g_systemState'.pidOutput = ONE)]_vars

\* a saturated tick that kept the increment it had just integrated
C5_IncrementKept ==
    /\ TickDone
    /\ g_systemState.systemOn
    /\ g_systemState.controlMode = CONTROL_MODE_EXP
    /\ pidRet.pTerm + pidRet.iTerm + pidRet.dTerm > ONE
    /\ pid.g_lastIntegralIncrement > 0
    /\ g_systemState.pidOutput = ONE

\* the control step of the first exponential-mode tick after a reset, with
\* setpoint 1.0 and measured flow 0.0
FirstTickStep ==
    /\ pc = "control"
    /\ pc' # "control"
    /\ g_systemState.systemOn
    /\ g_systemState.controlMode = CONTROL_MODE_EXP
    /\ pid.lastTimeNormal = now
    /\ g_systemState'.setpoint = ONE
    /\ g_systemState'.flow = 0

\* the PID's time step on that tick, in thousandths of a second
FirstTickDt ==
    IF now' - pid.lastTimeNormal <= 0 THEN 1 ELSE now' - pid.lastTimeNormal

C12_ModeFlipsOnFallingEdge ==
    [][IF pc = "buttons"
       THEN (g_systemState'.controlMode # g_systemState.controlMode)
              <=> (btn.oldState.modeToggle = HIGH /\ btn'.oldState.modeToggle = LOW)
       ELSE g_systemState'.controlMode = g_systemState.controlMode]_vars

\* the second tick of a held mode button: flipped once, not twice
C12_HeldButton ==
    /\ pc = "control"
    /\ ticks = 2
    /\ btn.oldState.modeToggle = LOW
    /\ ~btn.modeTogglePressed
    /\ g_systemState.controlMode = CONTROL_MODE_CONST_VOLTAGE

\* C15: a tick whose mode toggle flips the control mode enters its control
\* step with the PID integrator, the error-filter state and the remembered Ki
\* reset to 0.
C15_ModeFlipResets ==
    [][(pc = "buttons" /\ pc' = "control"
        /\ g_systemState'.controlMode # g_systemState.controlMode)
       => (/\ pid'.integralTerm = 0
           /\ s_errorFilter'.state = 0
           /\ s_lastKi' = 0)]_vars

\* the control step of a tick that flipped a running exponential controller
\* to constant voltage and kept its integrator, filter state and Ki
C15_StaleAfterModeFlip ==
    /\ pc = "control"
    /\ g_systemState.systemOn
    /\ btn.modeTogglePressed
    /\ g_systemState.controlMode = CONTROL_MODE_CONST_VOLTAGE
    /\ pid.integralTerm # 0
    /\ s_errorFilter.state # 0
    /\ s_lastKi # 0

\* the control step of a tick
ControlStep == pc = "control" /\ pc' # "control"

\* C24: a readFlow without data (the sensor not measuring, or fewer than 9
\* bytes) returns 0 and leaves the last temperature and flags as they were;
\* the tick goes on with flow 0, and in exponential mode with the system on
\* the raw error is the setpoint and runSequence is still called.
C24_SilentSensorReadsZero ==
    /\ [](\A rd \in SensorReads :
            (~sensor.measuringFlow \/ ~rd.avail) =>
               LET rf == readFlow(sensor, rd, getErrorPercent(btn.errorPercentValue))
               IN  /\ rf.flow = 0
                   /\ rf.sensor.rawTempC = sensor.rawTempC
                   /\ rf.sensor.lastFlags = sensor.lastFlags
                   /\ rf.sensor.measuringFlow = sensor.measuringFlow)
    /\ [][(ControlStep /\ (~sensor.measuringFlow \/ g_systemState'.flow = 0)) =>
            /\ g_systemState'.flow = 0
            /\ sensor'.rawTempC = sensor.rawTempC
            /\ sensor'.lastFlags = sensor.lastFlags
            /\ g_systemState'.temperature = sensor.rawTempC
            /\ ticks' = ticks
            /\ pc' = "buttons"
            /\ (g_systemState.systemOn /\ g_systemState.controlMode = CONTROL_MODE_EXP)
                 => /\ s_errorFilter' =
                         updateDynamicLPFilter(s_errorFilter, g_systemState'.setpoint, s_b2)
                    /\ Len(pump') = Len(pump) + 1
                    /\ pump'[Len(pump')] = RunSequenceCall(g_systemState'.desiredVoltage)
          ]_vars

\* an exponential-mode tick on a short read that followed a complete one: the
\* flow is 0, the earlier temperature and flags are kept, the pump is driven
C24_ShortReadTick ==
    /\ TickDone
    /\ g_systemState.systemOn
    /\ g_systemState.controlMode = CONTROL_MODE_EXP
    /\ sensor.measuringFlow
    /\ sensor.readAttemptCnt >= 2
    /\ sensor.lastFlags = 1
    /\ g_systemState.flow = 0
    /\ g_systemState.temperature # 0
    /\ g_systemState.setpoint > 0
    /\ pump[Len(pump)].op = "runSequence"
    /\ pump[Len(pump)].voltage > 0

\* steps 1 to 3 of a tick
ButtonsStep == pc = "buttons" /\ pc' = "control"

\* C26: initExpController runs in a tick exactly when the system-on flag
\* differs from the previous tick's; in every other tick, a mode toggle or
\* not, steps 1 to 3 leave the PID statics, the error filter and the
\* remembered Ki as they were, and so do the control steps of OFF and
\* constant-voltage ticks.
C26_ResetOnlyOnPowerEdge ==
    /\ [](pc = "buttons" => previousSystemOn = g_systemState.systemOn)
    /\ [][/\ ButtonsStep =>
               IF g_systemState'.systemOn # g_systemState.systemOn
               THEN /\ pid' = initPID(pid, now')
                    /\ s_lastKi' = 0
                    /\ s_errorFilter' = initDynamicLPFilter
               ELSE /\ pid' = pid
                    /\ s_lastKi' = s_lastKi
                    /\ s_errorFilter' = s_errorFilter
          /\ (ControlStep /\ ~(/\ g_systemState.systemOn
                               /\ g_systemState.controlMode = CONTROL_MODE_EXP))
               => /\ pid' = pid
                  /\ s_lastKi' = s_lastKi
                  /\ s_errorFilter' = s_errorFilter
         ]_vars

\* steps 1 to 3 of a third ON tick in a row, this one with a mode toggle: the
\* integrator, filter state, Ki and PID timestamp of the earlier ticks are kept
C26_KeptThroughModeToggle ==
    /\ pc = "control"
    /\ ticks = 3
    /\ g_systemState.systemOn
    /\ btn.modeTogglePressed
    /\ pid.integralTerm # 0
    /\ s_errorFilter.state # 0
    /\ s_lastKi # 0
    /\ pid.lastTimeNormal < now

\* C27: in steps 1 to 3 of a tick the system-on flag flips exactly on a
\* falling edge of the on/off pin and the control mode exactly on a falling
\* edge of the mode pin, each whatever the other pin does and whether the
\* system is ON or OFF; nothing else in the tick changes either, so the mode
\* is kept through OFF periods.
C27_PowerAndModeIndependent ==
    [][IF ButtonsStep
       THEN /\ (g_systemState'.systemOn # g_systemState.systemOn)
                 <=> (btn.oldState.onoff = HIGH /\ btn'.oldState.onoff = LOW)
            /\ (g_systemState'.controlMode # g_systemState.controlMode)
                 <=> (btn.oldState.modeToggle = HIGH /\ btn'.oldState.modeToggle = LOW)
            /\ g_systemState'.systemOn = btn'.systemOn
       ELSE /\ g_systemState'.systemOn = g_systemState.systemOn
            /\ g_systemState'.controlMode = g_systemState.controlMode
            /\ btn' = btn]_vars

\* switched ON by this tick's on/off press, in the constant-voltage mode that
\* was selected on an earlier tick while OFF
C27_ModeKeptWhileOff ==
    /\ pc = "control"
    /\ ticks >= 2
    /\ g_systemState.systemOn
    /\ g_systemState.controlMode = CONTROL_MODE_CONST_VOLTAGE
    /\ g_systemState.desiredVoltage = 0
    /\ ~btn.modeTogglePressed
    /\ btn.oldState.onoff = LOW

\* the control step of a tick with the system on in exponential mode
ExpControlStep ==
    /\ ControlStep
    /\ g_systemState.systemOn
    /\ g_systemState.controlMode = CONTROL_MODE_EXP

\* milliseconds from lastTimeNormal to the clock reading of this step's update
SinceLastPid ==
    IF now' = pid.lastTimeNormal THEN 1 ELSE now' - pid.lastTimeNormal

\* C28: the PID timestamp is set by a PID update and by a PID reset only;
\* constant-voltage and OFF ticks leave it alone, so an ON-EXP tick integrates
\* its smoothed error over the whole time since the last update or reset,
\* constant-voltage ticks in between included.
C28_StepSpansConstVoltageTicks ==
    [][/\ ExpControlStep =>
            /\ pid'.g_lastIntegralIncrement = MulF(pid'.lastError, SinceLastPid)
            /\ pid'.lastError = s_errorFilter'.state
            /\ pid'.integralTerm =
                 RescaleIntegrator(s_lastKi, pid'.Ki, pid.integralTerm)
                   + pid'.g_lastIntegralIncrement
            /\ pid'.lastTimeNormal = now'
       /\ (ControlStep /\ ~ExpControlStep) => pid'.lastTimeNormal = pid.lastTimeNormal
       /\ ButtonsStep =>
            pid'.lastTimeNormal =
               IF g_systemState'.systemOn # g_systemState.systemOn
               THEN now' ELSE pid.lastTimeNormal
      ]_vars

\* switched ON into constant voltage on the first tick, held there on the
\* second, toggled to exponential on the third: that tick integrated over the
\* 8 s and more since the reset
C28_LongStepAfterConstVoltage ==
    /\ TickDone
    /\ ticks = 3
    /\ g_systemState.systemOn
    /\ g_systemState.controlMode = CONTROL_MODE_EXP
    /\ btn.modeTogglePressed
    /\ pid.lastError > 0
    /\ pid.integralTerm = pid.g_lastIntegralIncrement
    /\ pid.g_lastIntegralIncrement >= MulF(pid.lastError, 8000)

\* C30: after setup the system is OFF and in exponential mode for every stored
\* pair of values; while the power flag is off only a falling edge of the
\* on/off button sets it, the stored values are never read again, and every
\* tick taken with the flag off issues exactly one pump-stop call and no
\* pump drive call.
C30_SafeStart ==
    /\ [](ticks = 0 =>
            /\ ~btn.systemOn
            /\ ~g_systemState.systemOn
            /\ ~previousSystemOn
            /\ g_systemState.controlMode = CONTROL_MODE_EXP
            /\ pump = <<>>)
    /\ [][/\ (ButtonsStep /\ ~btn.systemOn
                /\ ~(btn.oldState.onoff = HIGH /\ btn'.oldState.onoff = LOW))
             => (~btn'.systemOn /\ ~g_systemState'.systemOn)
          /\ (ControlStep /\ ~g_systemState.systemOn) => pump' = <<StopPumpCall>>
         ]_vars

\* three ticks after boot with the on/off button never pressed: the mode was
\* toggled, the setpoint is positive and the sensor reported flow, and the
\* tick ended with the pump stopped
C30_StillOffAfterThreeTicks ==
    /\ TickDone
    /\ ticks = 3
    /\ ~g_systemState.systemOn
    /\ ~previousSystemOn
    /\ btn.oldState.onoff = HIGH
    /\ g_systemState.controlMode = CONTROL_MODE_CONST_VOLTAGE
    /\ g_systemState.setpoint > 0
    /\ g_systemState.flow > 0
    /\ pump = <<StopPumpCall>>

(***************************************************************************)
(* Properties of the run-duration check (SpecRun).                         *)
(***************************************************************************)
\* whole seconds between setup and the end of the tick just run
ElapsedSeconds == (g_systemState.currentTimeMs - startTime) \div 1000

\* C14: the first tick that ends with more than SLF_RUN_DURATION whole
\* seconds elapsed stops the flow measurement, issues stopPump and halts; a
\* tick that ends earlier leaves the measurement running and adds no
\* stopPump of its own; once halted nothing changes any more.
C14_RunDurationHalt ==
    [][/\ (pc = "control" /\ pc' # "control") =>
            /\ (pc' = "halted") <=> (ElapsedSeconds' > SLF_RUN_DURATION)
            /\ pc' = "halted" =>
                  /\ ~sensor'.measuringFlow
                  /\ pump'[Len(pump')] = [op |-> "stopPump", voltage |-> 0]
            /\ pc' # "halted" =>
                  /\ sensor'.measuringFlow = sensor.measuringFlow
                  /\ g_systemState'.systemOn =>
                        \A i \in 1..Len(pump') : pump'[i].op = "runSequence"
       /\ pc = "halted" => UNCHANGED vars]_vars

\* halted out of an ON tick of a measuring sensor: driven, then stopped
C14_Halted ==
    /\ pc = "halted"
    /\ g_systemState.systemOn
    /\ sensor.readAttemptCnt > 0
    /\ ~sensor.measuringFlow
    /\ Len(pump) = 2
    /\ pump[1].op = "runSequence"
    /\ pump[2].op = "stopPump"

\* a tick that ended with exactly SLF_RUN_DURATION whole seconds elapsed
C14_AtLimitStillRunning ==
    /\ pc = "buttons"
    /\ ticks > 0
    /\ ElapsedSeconds = SLF_RUN_DURATION

(***************************************************************************)
(* Properties of the PID engine with the gain step (SpecEngine).           *)
(***************************************************************************)
\* the latest engine step was an update
Updated == pc = "eng_gains" /\ ticks > 0

\* C6: when the scheduled Ki differs from the remembered one and both are
\* nonzero, the gain step multiplies the integrator by previousKi / ki (from
\* Ki 2 to Ki 1 an integrator of 10 becomes 20); otherwise the integrator is
\* left as it was.
C6_IntegratorRescaled ==
    [][(pc \in {"eng_gains", "eng_reset"} /\ pc' = "eng_update") =>
        LET prev == s_lastKi
            ki   == pid'.Ki
            I0   == pid.integralTerm
            I1   == pid'.integralTerm
        IN  IF prev # ki /\ prev # 0 /\ ki # 0
            THEN /\ 2 * Abs(ki * I1 - prev * I0)
                       <= Abs(ki) + (Abs(ki) * Abs(I0)) \div ONE + 1
                 /\ (prev = 2 * ONE /\ ki = ONE /\ I0 = 10 * ONE) => I1 = 20 * ONE
            ELSE I1 = I0]_vars

\* one update integrated 10, then the gain step went from Ki 2 to Ki 1
C6_Doubled ==
    /\ pc = "eng_update"
    /\ ticks = 1
    /\ pid.Ki = ONE
    /\ s_lastKi = ONE
    /\ pid.integralTerm = 20 * ONE

C9_ZeroErrorStaysZero ==
    (Updated /\ h_allZero) => (pidRet.out = 0 /\ pid.integralTerm = 0)

\* a second zero-error update with all three gains nonzero
C9_ZeroErrorWithGains ==
    /\ Updated
    /\ h_allZero
    /\ ticks >= 2
    /\ pid.Kp > 0 /\ pid.Ki > 0 /\ pid.Kd > 0
    /\ pid.lastTimeNormal > 0

C19_StepAtLeastOneMs ==
    /\ gq.dt[1] > 0 \/ gq.dt[2] >= 1
    /\ gq.now = gq.last => gq.dt = <<0, 1>>
    /\ gq.now # gq.last => Add32(gq.last, gq.dt) = gq.now

\* a step across the wrap: lastTimeNormal 40 ms before 2^32, the reading 0
C19_AcrossWrap ==
    /\ gq.last = <<65535, 65496>>
    /\ gq.now = <<0, 0>>
    /\ gq.dt = <<0, 40>>

\* C21: an ON-EXP update runs, once each and in this order: the error filter,
\* the gain schedule on the filtered error, the integrator rescale on the old
\* integrator, the new gains, the PID update that integrates this tick's error
\* on the rescaled integrator and multiplies by the new Ki, the clamp, the
\* voltage mapping, and one runSequence call as the last pump command.
C21_StepOrder ==
    [][CondUpdate =>
         LET f2   == updateDynamicLPFilter(s_errorFilter, held', s_b2)
             err  == f2.state
             ki   == getExpKi(Abs(err))
             dt   == PidDt(now', pid.lastTimeNormal)
             I0   == RescaleIntegrator(s_lastKi, ki, pid.integralTerm)
             I1   == I0 + MulF(err, dt)
             frac == Clamp01(pidRet'.pTerm + pidRet'.iTerm + pidRet'.dTerm)
         IN  /\ s_errorFilter' = f2
             /\ pid'.Kp = getExpKp(Abs(err))
             /\ pid'.Ki = ki
             /\ pid'.Kd = getExpKd(Abs(err))
             /\ pid'.lastError = err
             /\ pid'.integralTerm = I1
             /\ pidRet'.iTerm = MulF(ki, I1)
             /\ pidRet'.out = frac
             /\ Len(pump') = Len(pump) + 1
             /\ SubSeq(pump', 1, Len(pump)) = pump
             /\ pump'[Len(pump')] =
                  RunSequenceCall(ExpVoltage(frac, cfg.minV, cfg.maxV))]_vars

\* two updates in a row, the second on a Ki that differs from the first's:
\* the integrator was rescaled and then integrated, the pump driven per update
C21_RescaledThenIntegrated ==
    /\ pc = "cond"
    /\ ticks >= 2
    /\ Len(pump) = ticks
    /\ pump[Len(pump)].op = "runSequence"
    /\ pid.Ki = s_lastKi
    /\ pid.integralTerm # 0
    /\ pid.integralTerm # pid.g_lastIntegralIncrement
    /\ pid.g_lastIntegralIncrement # 0

\* an update whose three terms sum to less than 0
LowSideUpdate ==
    /\ CondUpdate
    /\ pidRet'.pTerm + pidRet'.iTerm + pidRet'.dTerm < 0

\* the integrator an update starts from, after the rescale of its step 3
RescaledBefore == RescaleIntegrator(s_lastKi, pid'.Ki, pid.integralTerm)

\* C22: in an ON-EXP update whose PID sum is below 0 the output fraction is
\* exactly 0 and the integrator keeps this update's error * dt; so with the
\* error negative on consecutive updates the integrator decreases each time.
C22_LowSideIntegratorDecreases ==
    [][/\ LowSideUpdate =>
            /\ pidRet'.out = 0
            /\ pid'.g_lastIntegralIncrement =
                 MulF(pid'.lastError, PidDt(now', pid.lastTimeNormal))
            /\ pid'.integralTerm = RescaledBefore + pid'.g_lastIntegralIncrement
       /\ (CondUpdate /\ pid.lastError < 0 /\ pid'.lastError < 0 /\ pc = "cond")
            => pid'.integralTerm < pid.integralTerm
      ]_vars

\* C22 (amended): in such an update the output fraction is exactly 0 and the
\* integrator is the rescaled integrator plus this update's error * dt, with
\* no correction; with a negative error it ends at or below the rescaled
\* integrator, and at or below its value before the update whenever the
\* rescale left the integrator as it was.
C22_LowSideKeepsIncrement ==
    [][/\ LowSideUpdate =>
            /\ pidRet'.out = 0
            /\ pid'.g_lastIntegralIncrement =
                 MulF(pid'.lastError, PidDt(now', pid.lastTimeNormal))
            /\ pid'.integralTerm = RescaledBefore + pid'.g_lastIntegralIncrement
       /\ (CondUpdate /\ pid'.lastError < 0)
            => /\ pid'.integralTerm <= RescaledBefore
               /\ (RescaledBefore = pid.integralTerm
                     => pid'.integralTerm <= pid.integralTerm)
      ]_vars

\* a clamped-low update that left a negative integrator with its increment
C22_ClampedLow ==
    /\ pc = "cond"
    /\ ticks >= 2
    /\ pidRet.iTerm < 0
    /\ pidRet.out = 0
    /\ pid.g_lastIntegralIncrement < 0
    /\ pid.integralTerm < pid.g_lastIntegralIncrement

PoleUpdateOk(old, raw, a, new) ==
    /\ a # NaN /\ 0 <= a /\ a <= ONE
    /\ raw = 0 => a = ONE /\ new = raw
    /\ new # NaN
    /\ new = Lerp(a, raw, old)
    /\ Min(old, raw) <= new /\ new <= Max(old, raw)

\* C25: on every stage-1 update the coefficient is within [0, 1], and is 1
\* when |raw| < 1e-9; the new state is alpha * raw + (1 - alpha) * old state
\* and lies between the old state and the raw input; a raw input below 1e-9
\* in magnitude becomes the state.
C25_PoleWithinBounds ==
    [][PoleUpdate =>
         PoleUpdateOk(s_errorFilter.state, held',
                      s_errorFilter'.currentAlpha, s_errorFilter'.state)]_vars

\* the same for updates whose input and old state are numbers
C25_PoleWithinBoundsOnNumbers ==
    [][(PoleUpdate /\ held' # NaN /\ s_errorFilter.state # NaN) =>
         PoleUpdateOk(s_errorFilter.state, held',
                      s_errorFilter'.currentAlpha, s_errorFilter'.state)]_vars

\* a filter whose coefficient and state have become NaN
C25_PoleNotANumber ==
    /\ pc = "pole"
    /\ held = NaN
    /\ s_errorFilter.currentAlpha = NaN
    /\ s_errorFilter.state = NaN

(***************************************************************************)
(* Properties of the button module (SpecButtons).                          *)
(***************************************************************************)
\* the divisor 1 + errorPercent / 100 of readFlow's compensation
CompDivisor ==
    LET e == getErrorPercent(btn.errorPercentValue)
    IN  IF e = NaN THEN NaN ELSE ONE + RDiv(e, 100)

\* the ranges C29 states
ButtonValuesInRange ==
    /\ btn.flowSetpointValue # NaN
    /\ FLOW_SP_MIN <= btn.flowSetpointValue
    /\ btn.flowSetpointValue <= FLOW_SP_MAX
    /\ btn.errorPercentValue # NaN
    /\ -ERROR_PERCENT_LIMIT <= btn.errorPercentValue
    /\ btn.errorPercentValue <= ERROR_PERCENT_LIMIT
    /\ getErrorPercent(btn.errorPercentValue) = -btn.errorPercentValue
    /\ CompDivisor # NaN
    /\ 500 <= CompDivisor /\ CompDivisor <= 1500

\* C29: after initButtons on any EEPROM contents and after any button presses
\* the setpoint is within [FLOW_SP_MIN, FLOW_SP_MAX], the stored error percent
\* within [-50, 50], getErrorPercent is its negation, and the compensation
\* divisor is within [0.5, 1.5].
C29_SetpointAndErrorInRange == ButtonValuesInRange

\* the same when neither value loaded from the EEPROM is a NaN
C29_InRangeOnNumbers ==
    (btn.flowSetpointValue # NaN /\ btn.errorPercentValue # NaN)
       => ButtonValuesInRange

\* a NaN setpoint and error percent that survived a press of flow-up and
\* error-down and were written back
C29_NotANumberKept ==
    /\ pc = "poll"
    /\ btn.oldState.flowUp = LOW
    /\ btn.flowSetpointValue = NaN
    /\ btn.errorPercentValue = NaN
    /\ eeprom = [error |-> NaN, setpoint |-> NaN]
    /\ CompDivisor = NaN

(***************************************************************************)
(* Properties of the slope-matching bisection (SpecBisect).                *)
(***************************************************************************)
\* C23: the bisection leaves its loop after at most 60 iterations for every
\* parameter set; the bracket stays inside [1e-3, 100] with lo <= mid <= hi
\* and never widens; the loop is left before the 60th iteration exactly when
\* the bracket width has fallen below 1e-6; the B2 returned is the last mid
\* and lies within [1e-3, 100].
C23_BisectionBounded ==
    /\ [](/\ gq.i <= 60
          /\ 1 <= gq.lo /\ gq.lo <= gq.hi /\ gq.hi <= 100 * ONE
          /\ gq.i > 0 => gq.lo <= gq.mid /\ gq.mid <= gq.hi
          /\ gq.i < 60 => (gq.done <=> gq.hi - gq.lo <= 0)
          /\ gq.i = 60 => gq.done
          /\ gq.done =>
               /\ 1 <= gq.mid /\ gq.mid <= 100 * ONE
               /\ gq.mid = computeB2ViaSlope(gq.ps.A1, gq.ps.K1, gq.ps.B1,
                                             gq.ps.A2, gq.ps.K2, gq.ps.Tref))
    /\ [][BisectStep => gq'.hi - gq'.lo <= gq.hi - gq.lo]_vars

\* a bisection left early on an empty bracket
C23_StoppedEarly ==
    /\ pc = "bisect"
    /\ gq.done
    /\ gq.i > 1
    /\ gq.i < 60
    /\ gq.hi = gq.lo

\* a bisection that ran all 60 iterations on a bracket it could not narrow
C23_RanOut ==
    /\ pc = "bisect"
    /\ gq.done
    /\ gq.i = 60
    /\ gq.hi > gq.lo

C7_GainWithinAsymptotes ==
    /\ Min(gq.cv.A, gq.cv.K) <= gq.sched
    /\ gq.sched <= Max(gq.cv.A, gq.cv.K)

\* a query whose exponential overflowed on a curve with A = K
C7_NotANumber == gq.sched = NaN /\ gq.cv.A = gq.cv.K

\* the guard of the curve's body fires: B or B * (x - C) is below 1e-9
Degenerate(cv, x) == Abs(cv.B) = 0 \/ Abs(cv.B * (x - cv.C)) = 0

BothAtInput == tpf.dyn.state = held /\ tpf.ema.state = held

=============================================================================
